---- MODULE Spec2Model ----
(***************************************************************************)
(* Unlearning engine of TA_Project (src/main.py, src/utils.py) and the     *)
(* training driver of src/trainloop.py.                                    *)
(*                                                                         *)
(* Each call frame is modelled with its own specification:                 *)
(*   SpecMIA      compute_basic_mia, one grid point per step               *)
(*   SpecEval     eval_unlearning, one batch per step                      *)
(*   SpecStrategy rand_label / grad_ascent / grad_ascent_small / retrain   *)
(*   SpecMask     compute_mask (unlearn.py, as spec.md 4.1 describes it)   *)
(*   SpecMain     the experiment body of __main__, one experiment          *)
(*   SpecMaskKeys the same body run with a mask of any key set             *)
(*   SpecBatch    __main__ over a list of experiments                      *)
(*   SpecTrain    the epoch loop of trainloop.py                           *)
(* Values the code gets from the network or from the random forest are     *)
(* opaque to the code and are drawn from small sets.  Floating point       *)
(* numbers are modelled as exact rationals <<num, den>> (rounding is not   *)
(* modelled).                                                              *)
(***************************************************************************)
EXTENDS Integers, Sequences, FiniteSets, TLC

\* ------------------------------------------------------------- bounds
\* levels a metric (AUC or forget accuracy, both scaled 0..100) can take
MaxMetric == 3
\* examples in a split, examples in a batch (eval_unlearning)
MaxSplit == 2
MaxBatchSize == 2

\* rows in a training batch, identity indices, classes (strategies)
MaxBatch == 2
MaxId == 2
MaxClasses == 3

\* epochs of an experiment (settings["epochs"])
MaxEpochs == 2

\* batches of the forget loader read by the saliency pass (compute_mask)
ForgetBatches == 2

\* experiments of a batch run (the list read at src/main.py:169)
MaxExperiments == 2

\* levels of the validation top-1 accuracy: val_top1 = k / MaxTop1
MaxTop1 == 20

VARIABLES
    mia,    \* frame of compute_basic_mia
    ev,     \* frame of eval_unlearning (and the caller's line 232/316)
    st,     \* frame of one call of an unlearning strategy
    cm,     \* frame of compute_mask
    tl,     \* the training driver of src/trainloop.py (lines 160-202)
    \* __main__ (src/main.py:169-357)
    experiments,    \* the list the loop of line 169 runs over
    nexp,           \* position of the running experiment in it, from 1
    pc,         \* the statement about to run
    settings,   \* settings of the experiment: epochs, use_mask, log, method
    mask,       \* mask returned by compute_mask; no entry when unused
    param,      \* model parameters, by name
    grad,       \* their .grad buffers
    method,     \* strategy function bound at lines 266-277
    loader,     \* loader bound at lines 266-277
    epoch,      \* epochs completed so far
    batch,      \* batches of the current epoch consumed so far
    accs,       \* accs of the last evaluation (forget inverted)
    losses,     \* losses of the last evaluation
    mia_ret,    \* <<mia_auc, mia_acc>> of the last attack
    wandb,      \* records sent to wandb.log: their number and the last one
    best_test_acc,      \* lines 261-264 and 330-335
    best_test,
    best_forget_acc,
    best_forget,
    hist        \* history: counters and the unmasked reference run

bests == <<best_test_acc, best_test, best_forget_acc, best_forget>>
batchrun == <<experiments, nexp>>
main == <<batchrun, pc, settings, mask, param, grad, method, loader, epoch, batch,
          accs, losses, mia_ret, wandb, bests, hist>>
vars == <<mia, ev, st, cm, tl, main>>
notMia == <<ev, st, cm, tl, main>>
notEval == <<mia, st, cm, tl, main>>
notStrategy == <<mia, ev, cm, tl, main>>
notMask == <<mia, ev, st, tl, main>>
notTrain == <<mia, ev, st, cm, main>>
notMain == <<mia, ev, st, cm, tl>>

\* ---------------------------------------------------------- rationals
RECURSIVE GCD(_, _)
GCD(a, b) == IF b = 0 THEN a ELSE GCD(b, a % b)

Abs(x) == IF x < 0 THEN -x ELSE x

\* n/d in lowest terms, d > 0
Rat(n, d) ==
    LET g == GCD(Abs(n), Abs(d))
        s == IF d < 0 THEN -1 ELSE 1
    IN  <<s * (n \div g), s * (d \div g)>>

RatInt(n) == <<n, 1>>
RatAddInt(r, k) == Rat(r[1] + k * r[2], r[2])
RatDivInt(r, k) == Rat(r[1], r[2] * k)
RatSub(a, b) == Rat(a[1] * b[2] - b[1] * a[2], a[2] * b[2])
RatLeq(a, b) == a[1] * b[2] <= b[1] * a[2]
RatLt(a, b) == a[1] * b[2] < b[1] * a[2]

RECURSIVE SumSeq(_)
SumSeq(s) == IF s = <<>> THEN 0 ELSE Head(s) + SumSeq(Tail(s))

\* tensor.mean() of an integer vector
Mean(s) == Rat(SumSeq(s), Len(s))

\* ---------------------------------------------------------------------
\* compute_basic_mia (src/main.py:60-95)
\* ---------------------------------------------------------------------
N_EST == <<20, 50, 100>>
CRITERION == <<"gini", "entropy">>
Metrics == 0..MaxMetric

\* lines 91-93: one comparison guards both assignments
MiaUpdate(best, auc, acc) ==
    IF acc > best.best_acc
    THEN [best_auc |-> auc, best_acc |-> acc]
    ELSE best

\* lines 76-77
MiaStart == [best_auc |-> 0, best_acc |-> 0]

\* the whole function on the scores of the six fits, in loop order
RECURSIVE MiaFold(_, _)
MiaFold(grid, best) ==
    IF grid = <<>> THEN best
    ELSE MiaFold(Tail(grid), MiaUpdate(best, Head(grid)[1], Head(grid)[2]))

compute_basic_mia(grid) ==
    LET b == MiaFold(grid, MiaStart) IN <<b.best_auc, b.best_acc>>

Max2(a, b) == IF a > b THEN a ELSE b

MiaIdle ==
    [pc |-> "idle", ni |-> 0, ci |-> 0, best |-> MiaStart,
     max_auc |-> 0, max_acc |-> 0, ret |-> <<>>]

\* state at line 78, before the first fit
MiaEntry == [MiaIdle EXCEPT !.pc = "grid", !.ni = 1, !.ci = 1]

\* lines 78-93: fit one forest; its two scores are what the code sees of it.
\* max_auc / max_acc record the largest score of each kind seen so far.
MiaGridPoint ==
    /\ mia.pc = "grid"
    /\ \E auc \in Metrics, acc \in Metrics :
        LET last == mia.ni = Len(N_EST) /\ mia.ci = Len(CRITERION)
            wrap == mia.ci = Len(CRITERION)
        IN  mia' = [mia EXCEPT
                !.best = MiaUpdate(mia.best, auc, acc),
                !.max_auc = Max2(mia.max_auc, auc),
                !.max_acc = Max2(mia.max_acc, acc),
                !.ci = IF wrap THEN 1 ELSE mia.ci + 1,
                !.ni = IF wrap THEN mia.ni + 1 ELSE mia.ni,
                !.pc = IF last THEN "return" ELSE "grid"]
    /\ UNCHANGED notMia

\* line 95
MiaReturn ==
    /\ mia.pc = "return"
    /\ mia' = [mia EXCEPT !.pc = "done",
                          !.ret = <<mia.best.best_auc, mia.best.best_acc>>]
    /\ UNCHANGED notMia


\* ---------------------------------------------------------------------
\* eval_unlearning (src/main.py:98-125), compute_topk (src/utils.py:40-46)
\* ---------------------------------------------------------------------
\* the names __main__ passes, in the order it passes them (lines 227-228)
NAMES == <<"test", "forget", "retain", "val">>
NameSet == {NAMES[i] : i \in 1..Len(NAMES)}
EvalClasses == {0, 1}
EmptyFn == [x \in {} |-> 0]

\* utils.compute_topk with k = 1: indeces[i] is the top-1 class of row i
compute_topk(labels, indeces) ==
    Cardinality({i \in 1..Len(labels) : labels[i] = indeces[i]})

\* criterion(output, target), reduction="none": one loss per row.  The value
\* is opaque to the code; row k of a split is given the loss k, so that an
\* entry of the loss list shows which rows it was computed from.
ExampleLoss(k) == k
BatchLosses(first, n) == [i \in 1..n |-> ExampleLoss(first + i - 1)]

\* lines 101-103
EvalStart == [tot_acc |-> RatInt(0), accs |-> EmptyFn, losses |-> EmptyFn]

\* line 106
EvalOpenSplit(f, name) ==
    [f EXCEPT !.losses = (name :> <<>>) @@ f.losses]

\* lines 114-121 for one batch
EvalBatchStep(f, name, labels, indeces, loss) ==
    [f EXCEPT
        !.losses = (name :> Append(f.losses[name], Mean(loss))) @@ f.losses,
        !.tot_acc = RatAddInt(f.tot_acc, compute_topk(labels, indeces))]

\* lines 123-124
EvalCloseSplit(f, name, size) ==
    LET a == RatDivInt(f.tot_acc, size)
    IN  [f EXCEPT !.tot_acc = a, !.accs = (name :> a) @@ f.accs]

\* the caller's line 232 / 316
InvertForget(a) ==
    [a EXCEPT !["forget"] = RatSub(RatInt(1), a["forget"])]

Min2(a, b) == IF a < b THEN a ELSE b

\* torch's gradient mode is on unless a no_grad scope is open; neither
\* __main__ nor eval_unlearning opens one (model.eval() at line 100 only
\* switches dropout and batch-norm layers)
GradModeAtCall == TRUE

\* line 114, output = model(image): the forward pass records the autograd
\* graph when the gradient mode is on
ForwardRecords(enabled) == IF enabled THEN 1 ELSE 0

EvalIdle ==
    [pc |-> "idle", li |-> 0, seen |-> 0, size |-> EmptyFn, batch_size |-> 0,
     f |-> EvalStart, correct |-> EmptyFn, ret |-> EmptyFn,
     grad_enabled |-> GradModeAtCall, tracked |-> 0]

\* state at line 104 for loaders of the given sizes
EvalEntry(size, bs) ==
    [EvalIdle EXCEPT !.pc = "loader", !.li = 1, !.size = size,
                     !.batch_size = bs]

EvName == NAMES[ev.li]

\* line 104: next (loader, name) of the zip, or fall through to line 125
EvalNextLoader ==
    /\ ev.pc = "loader"
    /\ IF ev.li <= Len(NAMES)
       THEN ev' = [ev EXCEPT !.pc = "batch", !.seen = 0,
                             !.f = EvalOpenSplit(ev.f, EvName),
                             !.correct = (EvName :> 0) @@ ev.correct]
       ELSE ev' = [ev EXCEPT !.pc = "return"]
    /\ UNCHANGED notEval

\* lines 107-121: one batch of the current loader; labels and top-1 classes
\* of its rows are inputs.  ev.correct counts the rows of this split whose
\* top-1 class is the label, ev.tracked the forward passes that recorded
\* gradient information.
EvalBatch ==
    /\ ev.pc = "batch"
    /\ ev.seen < ev.size[EvName]
    /\ LET n == Min2(ev.batch_size, ev.size[EvName] - ev.seen)
       IN  \E labels \in [1..n -> EvalClasses], indeces \in [1..n -> EvalClasses] :
             ev' = [ev EXCEPT
                 !.f = EvalBatchStep(ev.f, EvName, labels, indeces,
                                     BatchLosses(ev.seen + 1, n)),
                 !.seen = ev.seen + n,
                 !.tracked = ev.tracked + ForwardRecords(ev.grad_enabled),
                 !.correct = (EvName :>
                     ev.correct[EvName]
                     + Cardinality({i \in 1..n : labels[i] = indeces[i]}))
                     @@ ev.correct]
    /\ UNCHANGED notEval

\* lines 123-124, when the loader is exhausted
EvalSplitEnd ==
    /\ ev.pc = "batch"
    /\ ev.seen = ev.size[EvName]
    /\ ev' = [ev EXCEPT !.f = EvalCloseSplit(ev.f, EvName, ev.size[EvName]),
                        !.li = ev.li + 1, !.pc = "loader"]
    /\ UNCHANGED notEval

\* line 125
EvalReturn ==
    /\ ev.pc = "return"
    /\ ev' = [ev EXCEPT !.pc = "returned", !.ret = ev.f.accs]
    /\ UNCHANGED notEval

\* line 232 / 316 in the caller
EvalInvert ==
    /\ ev.pc = "returned"
    /\ ev' = [ev EXCEPT !.pc = "done", !.ret = InvertForget(ev.ret)]
    /\ UNCHANGED notEval


\* ---------------------------------------------------------------------
\* unlearning strategies (src/main.py:15-57)
\* ---------------------------------------------------------------------
Ids == 1..MaxId

RECURSIVE SortedSeq(_)
SortedSeq(S) ==
    IF S = {} THEN <<>>
    ELSE LET m == CHOOSE x \in S : \A y \in S : x <= y
         IN  <<m>> \o SortedSeq(S \ {m})

\* loader.dataset.dataset.FORGET: a list of identity indices
ForgetLists == {SortedSeq(S) : S \in SUBSET Ids}

\* (idx.unsqueeze(1) == forget_tensor).any(dim=1), lines 19 and 37
WhichIsInPerBatch(idx, forget) ==
    [i \in 1..Len(idx) |->
        \E k \in 1..Len(idx), j \in 1..Len(forget) : idx[k] = forget[j]]

WhichIsIn(idx, forget) ==
    [i \in 1..Len(idx) |-> \E j \in 1..Len(forget) : idx[i] = forget[j]]

\* the values torch.randint(low, high, ...) can return: low <= v < high
RandIntFromZero(low, high) == 0..(high - 1)

RandInt(low, high) == low..(high - 1)

\* criterion(output, target), reduction="none".  The value is opaque to the
\* code; row i scored against label y gets the loss (i-1)*C + y + 1 > 0, so
\* that a loss shows the row and the label it was computed from.
CrossEntropy(i, y, C) == (i - 1) * C + y + 1
Criterion(target, C) == [i \in 1..Len(target) |-> CrossEntropy(i, target[i], C)]

\* rand_label, lines 17-28, for the draw r of line 20.  Returns the target
\* tensor as the in-place update of line 22 leaves it, the per-row loss and
\* the returned scalar.
rand_label(idx, target, forget, C, r) ==
    LET which_is_in == WhichIsIn(idx, forget)
        rand_targets == [i \in 1..Len(target) |-> (target[i] + r[i]) % C]
        new_target == [i \in 1..Len(target) |->
                          IF which_is_in[i] THEN rand_targets[i] ELSE target[i]]
        loss == Criterion(new_target, C)
    IN  [which_is_in |-> which_is_in, target |-> new_target,
         rows |-> loss, loss |-> Mean(loss)]

\* grad_ascent, lines 32-41
grad_ascent_all_rows(idx, target, forget, C) ==
    LET which_is_in == WhichIsIn(idx, forget)
        loss == [i \in 1..Len(target) |-> -Criterion(target, C)[i]]
    IN  [which_is_in |-> which_is_in, target |-> target,
         rows |-> loss, loss |-> Mean(loss)]

grad_ascent(idx, target, forget, C) ==
    LET which_is_in == WhichIsIn(idx, forget)
        raw == Criterion(target, C)
        loss == [i \in 1..Len(target) |->
                    IF which_is_in[i] THEN -1 * raw[i] ELSE raw[i]]
    IN  [which_is_in |-> which_is_in, target |-> target,
         rows |-> loss, loss |-> Mean(loss)]

\* grad_ascent_small, lines 45-49
grad_ascent_small(idx, target, forget, C) ==
    LET loss == [i \in 1..Len(target) |-> -Criterion(target, C)[i]]
    IN  [which_is_in |-> <<>>, target |-> target,
         rows |-> loss, loss |-> Mean(loss)]

\* retrain, lines 53-57
retrain(idx, target, forget, C) ==
    LET loss == Criterion(target, C)
    IN  [which_is_in |-> <<>>, target |-> target,
         rows |-> loss, loss |-> Mean(loss)]

StIdle ==
    [pc |-> "idle", method |-> "", FORGET |-> <<>>, classes |-> 0,
     idx |-> <<>>, label |-> <<>>, target |-> <<>>,
     which_is_in |-> <<>>, rows |-> <<>>, loss |-> RatInt(0)]

\* a batch about to be passed to a strategy (line 295).  label keeps the
\* batch's labels as the loader gave them; target is the tensor the strategy
\* receives and may write.
StEntry(forget, C, idx, target) ==
    [StIdle EXCEPT !.pc = "call", !.FORGET = forget, !.classes = C,
                   !.idx = idx, !.label = target, !.target = target]

StReturn(fn, out) ==
    st' = [st EXCEPT !.pc = "returned", !.method = fn,
                     !.which_is_in = out.which_is_in, !.target = out.target,
                     !.rows = out.rows, !.loss = out.loss]

CallRandLabel ==
    /\ st.pc = "call"
    /\ \E r \in [1..Len(st.target) -> RandInt(1, st.classes)] :
         StReturn("rand_label",
                  rand_label(st.idx, st.target, st.FORGET, st.classes, r))
    /\ UNCHANGED notStrategy

CallGradAscent ==
    /\ st.pc = "call"
    /\ StReturn("grad_ascent",
                grad_ascent(st.idx, st.target, st.FORGET, st.classes))
    /\ UNCHANGED notStrategy

CallGradAscentSmall ==
    /\ st.pc = "call"
    /\ StReturn("grad_ascent_small",
                grad_ascent_small(st.idx, st.target, st.FORGET, st.classes))
    /\ UNCHANGED notStrategy

CallRetrain ==
    /\ st.pc = "call"
    /\ StReturn("retrain",
                retrain(st.idx, st.target, st.FORGET, st.classes))
    /\ UNCHANGED notStrategy


\* ---------------------------------------------------------------------
\* experiment body of __main__ (src/main.py:171-357)
\* ---------------------------------------------------------------------
ParamNames == {"conv", "fc"}
GradVals == {-1, 1}
METHODS == {"rl", "ga", "ga_small", "retrain"}
Zero == [n \in ParamNames |-> 0]

\* batches per epoch of each loader: train = forget + retain
LoaderLen ==
    [train_loader |-> 2, forget_loader |-> 1, retain_loader |-> 1, unbound |-> 0]

\* lines 266-277
MethodFor(m) ==
    CASE m = "rl" -> "rand_label"
      [] m = "ga" -> "grad_ascent"
      [] m = "ga_small" -> "grad_ascent_small"
      [] m = "retrain" -> "retrain"

LoaderFor(m) ==
    CASE m = "rl" -> "train_loader"
      [] m = "ga" -> "train_loader"
      [] m = "ga_small" -> "forget_loader"
      [] m = "retrain" -> "retain_loader"

\* eval_unlearning as one call.  loaders[name] = [size, batches], a batch
\* being the labels and top-1 classes of its rows.
RECURSIVE EvalBatches(_, _, _, _)
EvalBatches(f, name, batches, first) ==
    IF batches = <<>> THEN f
    ELSE LET b == Head(batches)
         IN  EvalBatches(
                 EvalBatchStep(f, name, b.labels, b.indeces,
                               BatchLosses(first, Len(b.labels))),
                 name, Tail(batches), first + Len(b.labels))

RECURSIVE EvalLoaders(_, _, _)
EvalLoaders(f, k, loaders) ==
    IF k > Len(NAMES) THEN f
    ELSE LET name == NAMES[k]
             run == EvalBatches(EvalOpenSplit(f, name), name,
                                loaders[name].batches, 1)
         IN  EvalLoaders(EvalCloseSplit(run, name, loaders[name].size),
                         k + 1, loaders)

eval_unlearning(loaders) ==
    LET f == EvalLoaders(EvalStart, 1, loaders)
    IN  [accs |-> f.accs, losses |-> f.losses]

\* the loaders of the experiment: one example per split; hit[name] tells
\* whether the model's top-1 class for it is its label
UnitLoaders(hit) ==
    [name \in NameSet |->
        [size |-> 1,
         batches |-> <<[labels |-> <<1>>,
                        indeces |-> <<IF hit[name] THEN 1 ELSE 0>>]>>]]

\* what the network does on the four examples: right or wrong on the
\* forgotten one, right or wrong on the three others
HitPatterns ==
    {h \in [NameSet -> BOOLEAN] : h["retain"] = h["test"] /\ h["val"] = h["test"]}

\* loss.backward(): gradients accumulate into .grad
Backward(gr, g) == [n \in ParamNames |-> gr[n] + g[n]]

\* lines 299-301
MaskGradOverwrite(gr, m) ==
    [n \in ParamNames |-> IF n \in DOMAIN m THEN m[n] ELSE gr[n]]

MaskGradMissingAsZero(gr, m) ==
    [n \in ParamNames |-> IF n \in DOMAIN m THEN gr[n] * m[n] ELSE 0]

MaskGrad(gr, m) ==
    [n \in ParamNames |-> IF n \in DOMAIN m THEN gr[n] * m[n] ELSE gr[n]]

\* optimizer.zero_grad() (line 304)
zero_grad_skipped(gr) == gr

zero_grad(gr) == [n \in DOMAIN gr |-> 0]

\* gradient buffers when the experiment body starts (line 224): the model
\* comes from load_checkpoint or get_model with no gradients, and the
\* saliency pass of compute_mask "measures, then discards, the transient
\* gradient" (spec.md 4.1)
GradAfterSetup == Zero

\* torch.optim.SGD.step(), in units of the learning rate
SGDStep(p, gr) == [n \in ParamNames |-> p[n] - gr[n]]

\* line 279: for epoch in range(EPOCHS)
OneMoreEpoch == epoch <= settings.epochs

MoreEpochs == epoch < settings.epochs

\* line 285: for data in tqdm(loader)
MoreBatches == batch < LoaderLen[loader]

\* line 298
AfterBackward == IF settings.use_mask THEN "MaskGradients" ELSE "OptimizerStep"

\* what follows the batch loop (line 309)
SkipEvaluation == "log"

AfterBatchLoop == "eval"

NoRun == [param |-> <<>>, grad |-> <<>>]

HistStart ==
    [steps |-> 0, evals |-> 0, attacks |-> 0, eval_at |-> -1, attack_at |-> -1,
     bound_at |-> 0, g |-> Zero,
     plain |-> [param |-> Zero, grad |-> Zero]]

\* ---------------------------------------------------------------------
\* compute_mask (unlearn.py, imported at src/main.py:12 and called at
\* lines 213-220), as spec.md 4.1 describes it
\* ---------------------------------------------------------------------
\* entries of a parameter tensor
Entries == {1, 2}
\* values of settings["mask_thr"]: 0, 1/2 and 1
Thresholds == {Rat(0, 1), Rat(1, 2), Rat(1, 1)}
\* a batch's gradient of the ascent objective, per entry
SaliencyGrads == [ParamNames -> [Entries -> {-1, 0, 1}]]
ZeroSaliency == [n \in ParamNames |-> [i \in Entries |-> 0]]

\* "accumulate the gradient magnitude (absolute value) for every parameter"
AccumulateSaliency(saliency, g) ==
    [n \in ParamNames |-> [i \in Entries |-> saliency[n][i] + Abs(g[n][i])]]

\* the per-parameter maximum
TensorMax(t) == CHOOSE m \in {t[i] : i \in DOMAIN t} : \A i \in DOMAIN t : t[i] <= m

\* "mask[param] = 1 where the accumulated saliency exceeds saliency_threshold
\* times a per-parameter maximum, else 0"; every parameter gets an entry
compute_mask(saliency, saliency_threshold) ==
    [n \in DOMAIN saliency |->
        [i \in DOMAIN saliency[n] |->
            IF RatLt(Rat(saliency_threshold[1] * TensorMax(saliency[n]),
                         saliency_threshold[2]),
                     RatInt(saliency[n][i]))
            THEN 1 ELSE 0]]

CmIdle ==
    [pc |-> "idle", batches |-> 0, seen |-> 0, saliency |-> ZeroSaliency,
     saliency_threshold |-> Rat(0, 1), ret |-> EmptyFn]

CmEntry(thr, n) ==
    [CmIdle EXCEPT !.pc = "pass", !.saliency_threshold = thr, !.batches = n]

\* one batch of the pass over the forget subset
SaliencyBatch ==
    /\ cm.pc = "pass"
    /\ cm.seen < cm.batches
    /\ \E g \in SaliencyGrads :
         cm' = [cm EXCEPT !.saliency = AccumulateSaliency(cm.saliency, g),
                          !.seen = cm.seen + 1]
    /\ UNCHANGED notMask

\* after the pass: threshold the accumulated saliency and return the mask
BuildMask ==
    /\ cm.pc = "pass"
    /\ cm.seen = cm.batches
    /\ cm' = [cm EXCEPT !.pc = "returned",
                        !.ret = compute_mask(cm.saliency, cm.saliency_threshold)]
    /\ UNCHANGED notMask

\* lines 225-232 and 309-316
Evaluate ==
    /\ pc \in {"base_eval", "eval"}
    /\ \E hit \in HitPatterns :
         LET r == eval_unlearning(UnitLoaders(hit))
         IN  /\ accs' = InvertForget(r.accs)
             /\ losses' = r.losses
    /\ pc' = IF pc = "base_eval" THEN "base_mia" ELSE "mia"
    /\ hist' = [hist EXCEPT !.evals = @ + 1, !.eval_at = hist.steps]
    /\ UNCHANGED <<settings, mask, param, grad, method, loader, epoch, batch,
                   mia_ret, wandb>>
    /\ UNCHANGED bests
    /\ UNCHANGED batchrun
    /\ UNCHANGED notMain

\* lines 235-240 and 319-324; every fit of the grid scores the same here
Attack ==
    /\ pc \in {"base_mia", "mia"}
    /\ \E auc \in {0, MaxMetric}, acc \in {0, MaxMetric} :
         mia_ret' = compute_basic_mia(
                        [k \in 1..(Len(N_EST) * Len(CRITERION)) |-> <<auc, acc>>])
    /\ pc' = IF pc = "base_mia" THEN "base_log" ELSE "log"
    /\ hist' = [hist EXCEPT !.attacks = @ + 1, !.attack_at = hist.steps]
    /\ UNCHANGED <<settings, mask, param, grad, method, loader, epoch, batch,
                   accs, losses, wandb>>
    /\ UNCHANGED bests
    /\ UNCHANGED batchrun
    /\ UNCHANGED notMain

MetricsRecord ==
    [test |-> accs["test"], forget |-> accs["forget"],
     retain |-> accs["retain"], val |-> accs["val"],
     mia_auc |-> mia_ret[1], mia_acc |-> mia_ret[2]]

\* line 330: test_acc > best_test_acc
TestImproves(test_acc, b) == RatLt(b, test_acc)

\* line 333: forget_acc > best_forget_acc
ForgetImprovesWhenLower(forget_acc, b) == RatLt(forget_acc, b)

ForgetImproves(forget_acc, b) == RatLt(b, forget_acc)

\* lines 248-258, and lines 325-351 in the epoch loop: the best records are
\* updated, then the metrics are logged; the epoch's body ends after line 351
Log ==
    /\ pc \in {"base_log", "log"}
    /\ wandb' = IF settings.log
                THEN [count |-> wandb.count + 1, last |-> MetricsRecord]
                ELSE wandb
    /\ IF pc = "log"
       THEN LET test_acc == accs["test"]
                forget_acc == accs["forget"]
            IN  /\ IF TestImproves(test_acc, best_test_acc)
                   THEN best_test_acc' = test_acc /\ best_test' = accs
                   ELSE UNCHANGED <<best_test_acc, best_test>>
                /\ IF ForgetImproves(forget_acc, best_forget_acc)
                   THEN best_forget_acc' = forget_acc /\ best_forget' = accs
                   ELSE UNCHANGED <<best_forget_acc, best_forget>>
       ELSE UNCHANGED bests
    /\ pc' = IF pc = "base_log" THEN "dispatch" ELSE "epoch_loop"
    /\ epoch' = IF pc = "base_log" THEN epoch ELSE epoch + 1
    /\ UNCHANGED <<settings, mask, param, grad, method, loader, batch,
                   accs, losses, mia_ret, hist>>
    /\ UNCHANGED batchrun
    /\ UNCHANGED notMain

\* lines 261-277; the if/elif chain of lines 266-277 has no else: with any
\* other method string neither name is assigned.  hist.bound_at is the
\* experiment that assigned them.
Dispatch ==
    /\ pc = "dispatch"
    /\ best_test_acc' = RatInt(0)
    /\ best_test' = EmptyFn
    /\ best_forget_acc' = RatInt(100)
    /\ best_forget' = EmptyFn
    /\ IF settings.method \in METHODS
       THEN /\ method' = MethodFor(settings.method)
            /\ loader' = LoaderFor(settings.method)
            /\ hist' = [hist EXCEPT !.bound_at = nexp]
       ELSE UNCHANGED <<method, loader, hist>>
    /\ pc' = "epoch_loop"
    /\ UNCHANGED <<settings, mask, param, grad, epoch, batch,
                   accs, losses, mia_ret, wandb>>
    /\ UNCHANGED batchrun
    /\ UNCHANGED notMain

\* line 279 (and 283), or lines 355-357 when the range is exhausted
EpochLoop ==
    /\ pc = "epoch_loop"
    /\ IF MoreEpochs
       THEN pc' = "batch_loop" /\ batch' = 0
       ELSE pc' = "done" /\ batch' = batch
    /\ UNCHANGED <<settings, mask, param, grad, method, loader, epoch,
                   accs, losses, mia_ret, wandb, hist>>
    /\ UNCHANGED bests
    /\ UNCHANGED batchrun
    /\ UNCHANGED notMain

\* lines 285-293: fetch the next batch, or leave the loop; reading the name
\* `loader` before any assignment to it raises NameError
BatchLoop ==
    /\ pc = "batch_loop"
    /\ pc' = IF loader = "unbound" THEN "NameError"
             ELSE IF MoreBatches THEN "ForwardBackward" ELSE AfterBatchLoop
    /\ UNCHANGED <<settings, mask, param, grad, method, loader, epoch, batch,
                   accs, losses, mia_ret, wandb, hist>>
    /\ UNCHANGED bests
    /\ UNCHANGED batchrun
    /\ UNCHANGED notMain

\* the reference run is in step with this one when it holds the same
\* parameters at the start of a batch: it then computes the same gradient
InStep == hist.plain # NoRun /\ hist.plain.param = param

\* lines 295-296: g is the gradient of the strategy's loss on this batch
ForwardBackward ==
    /\ pc = "ForwardBackward"
    /\ \E g \in [ParamNames -> GradVals] :
         /\ grad' = Backward(grad, g)
         /\ hist' = [hist EXCEPT
                        !.g = g,
                        !.plain =
                            IF InStep
                            THEN [hist.plain EXCEPT !.grad = Backward(@, g)]
                            ELSE NoRun]
    /\ pc' = AfterBackward
    /\ UNCHANGED <<settings, mask, param, method, loader, epoch, batch,
                   accs, losses, mia_ret, wandb>>
    /\ UNCHANGED bests
    /\ UNCHANGED batchrun
    /\ UNCHANGED notMain

\* lines 298-301
MaskGradients ==
    /\ pc = "MaskGradients"
    /\ grad' = MaskGrad(grad, mask)
    /\ pc' = "OptimizerStep"
    /\ UNCHANGED <<settings, mask, param, method, loader, epoch, batch,
                   accs, losses, mia_ret, wandb, hist>>
    /\ UNCHANGED bests
    /\ UNCHANGED batchrun
    /\ UNCHANGED notMain

\* line 303
OptimizerStep ==
    /\ pc = "OptimizerStep"
    /\ param' = SGDStep(param, grad)
    /\ hist' = [hist EXCEPT
                   !.steps = @ + 1,
                   !.plain = IF hist.plain = NoRun THEN NoRun
                             ELSE [@ EXCEPT !.param = SGDStep(@, hist.plain.grad)]]
    /\ pc' = "ZeroGrad"
    /\ UNCHANGED <<settings, mask, grad, method, loader, epoch, batch,
                   accs, losses, mia_ret, wandb>>
    /\ UNCHANGED bests
    /\ UNCHANGED batchrun
    /\ UNCHANGED notMain

\* line 304
ZeroGrad ==
    /\ pc = "ZeroGrad"
    /\ grad' = zero_grad(grad)
    /\ hist' = [hist EXCEPT
                   !.g = Zero,
                   !.plain = IF hist.plain = NoRun THEN NoRun
                             ELSE [@ EXCEPT !.grad = Zero]]
    /\ batch' = batch + 1
    /\ pc' = "batch_loop"
    /\ UNCHANGED <<settings, mask, param, method, loader, epoch,
                   accs, losses, mia_ret, wandb>>
    /\ UNCHANGED bests
    /\ UNCHANGED batchrun
    /\ UNCHANGED notMain

\* lines 355-357 of one experiment and lines 169-224 of the next: settings
\* read, a fresh model loaded from the checkpoint, loaders rebuilt, a new
\* wandb run, the mask recomputed when the experiment uses one.  Names the
\* new experiment does not assign keep their objects.
NextExperiment ==
    /\ pc = "done"
    /\ nexp < Len(experiments)
    /\ nexp' = nexp + 1
    /\ settings' = experiments[nexp + 1]
    /\ param' = Zero /\ grad' = GradAfterSetup
    /\ mask' \in IF experiments[nexp + 1].use_mask
                THEN [ParamNames -> {0, 1}] ELSE {mask}
    /\ pc' = "base_eval" /\ epoch' = 0 /\ batch' = 0
    /\ wandb' = [count |-> 0, last |-> EmptyFn]
    /\ hist' = [HistStart EXCEPT !.bound_at = hist.bound_at]
    /\ UNCHANGED <<experiments, method, loader, accs, losses, mia_ret, bests>>
    /\ UNCHANGED notMain

\* ---------------------------------------------------------------------
\* the training driver of src/trainloop.py (lines 160-202), for one CF
\* ---------------------------------------------------------------------
PAT == 10
EPOCHS == 200
Top1Levels == 0..MaxTop1

\* line 184: val_top1 > best_acc
ImprovesOrEqual(val_top1, best_acc) == val_top1 >= best_acc

Improves(val_top1, best_acc) == val_top1 > best_acc

TlIdle ==
    [pc |-> "idle", epoch |-> 0, best_acc |-> 0, pat |-> 0, saved |-> FALSE,
     streak |-> 0]

\* lines 160-161
TlEntry == [TlIdle EXCEPT !.pc = "loop", !.pat = PAT]

\* one iteration of the loop of line 162: train_loop, the two test_loop
\* calls, scheduler.step (lines 164-173), then lines 184-200.  tl.epoch counts
\* the iterations run, tl.saved tells whether this one called torch.save,
\* tl.streak counts the iterations since the last one that improved.
TrainEpoch ==
    /\ tl.pc = "loop"
    /\ tl.epoch < EPOCHS
    /\ \E val_top1 \in Top1Levels :
         IF Improves(val_top1, tl.best_acc)
         THEN tl' = [tl EXCEPT !.epoch = tl.epoch + 1, !.best_acc = val_top1,
                               !.pat = PAT, !.saved = TRUE, !.streak = 0]
         ELSE tl' = [tl EXCEPT !.epoch = tl.epoch + 1, !.pat = tl.pat - 1,
                               !.saved = FALSE, !.streak = tl.streak + 1,
                               !.pc = IF tl.pat - 1 = 0 THEN "test" ELSE "loop"]
    /\ UNCHANGED notTrain

\* line 162 when range(EPOCHS) is exhausted
EpochsExhausted ==
    /\ tl.pc = "loop"
    /\ tl.epoch = EPOCHS
    /\ tl' = [tl EXCEPT !.pc = "test"]
    /\ UNCHANGED notTrain

\* lines 202-208
FinalTest ==
    /\ tl.pc = "test"
    /\ tl' = [tl EXCEPT !.pc = "done"]
    /\ UNCHANGED notTrain

\* ------------------------------------------------------ specifications
\* the main frame while a function is checked on its own
MainIdle ==
    /\ experiments = <<>> /\ nexp = 0
    /\ pc = "idle"
    /\ settings = [epochs |-> 0, use_mask |-> FALSE, log |-> FALSE, method |-> "rl"]
    /\ mask = EmptyFn /\ param = Zero /\ grad = Zero
    /\ method = "unbound" /\ loader = "unbound"
    /\ epoch = 0 /\ batch = 0
    /\ accs = EmptyFn /\ losses = EmptyFn /\ mia_ret = <<>>
    /\ wandb = [count |-> 0, last |-> EmptyFn]
    /\ best_test_acc = "unbound" /\ best_test = "unbound"
    /\ best_forget_acc = "unbound" /\ best_forget = "unbound"
    /\ hist = HistStart

InitMIA ==
    /\ mia = MiaEntry /\ ev = EvalIdle /\ st = StIdle /\ cm = CmIdle /\ tl = TlIdle
    /\ MainIdle
NextMIA == MiaGridPoint \/ MiaReturn
SpecMIA == InitMIA /\ [][NextMIA]_vars

InitEval ==
    /\ mia = MiaIdle
    /\ st = StIdle
    /\ cm = CmIdle
    /\ tl = TlIdle
    /\ MainIdle
    /\ \E size \in [NameSet -> 1..MaxSplit], bs \in 1..MaxBatchSize :
         ev = EvalEntry(size, bs)
NextEval == EvalNextLoader \/ EvalBatch \/ EvalSplitEnd \/ EvalReturn \/ EvalInvert
SpecEval == InitEval /\ [][NextEval]_vars

\* a batch of up to MaxBatch rows, or the batch idx = [1,3,5,7] with
\* FORGET = [3,7]
InitStrategy ==
    /\ mia = MiaIdle
    /\ ev = EvalIdle
    /\ cm = CmIdle
    /\ tl = TlIdle
    /\ MainIdle
    /\ \/ \E forget \in ForgetLists, C \in 2..MaxClasses, n \in 1..MaxBatch :
            \E idx \in [1..n -> Ids], target \in [1..n -> 0..(C - 1)] :
                st = StEntry(forget, C, idx, target)
       \/ \E target \in [1..4 -> 0..1] :
            st = StEntry(<<3, 7>>, 2, <<1, 3, 5, 7>>, target)
NextStrategy ==
    CallRandLabel \/ CallGradAscent \/ CallGradAscentSmall \/ CallRetrain
SpecStrategy == InitStrategy /\ [][NextStrategy]_vars

\* compute_mask called with a threshold on a forget loader of 1..ForgetBatches
\* batches
InitMask ==
    /\ mia = MiaIdle /\ ev = EvalIdle /\ st = StIdle /\ tl = TlIdle
    /\ MainIdle
    /\ \E thr \in Thresholds, n \in 1..ForgetBatches : cm = CmEntry(thr, n)
NextMask == SaliencyBatch \/ BuildMask
SpecMask == InitMask /\ [][NextMask]_vars

\* the driver at line 160; the loop always runs on (one thread of control)
InitTrain ==
    /\ mia = MiaIdle /\ ev = EvalIdle /\ st = StIdle /\ cm = CmIdle
    /\ MainIdle
    /\ tl = TlEntry
NextTrain == TrainEpoch \/ EpochsExhausted \/ FinalTest
SpecTrain == InitTrain /\ [][NextTrain]_vars /\ WF_vars(NextTrain)

\* state at line 224 of a run of one experiment whose method is one of the
\* four lines 266-277 know: settings read, checkpoint loaded, mask computed
InitMain ==
    /\ mia = MiaIdle /\ ev = EvalIdle /\ st = StIdle /\ cm = CmIdle /\ tl = TlIdle
    /\ pc = "base_eval"
    /\ settings \in [epochs : 0..MaxEpochs, use_mask : BOOLEAN,
                     log : BOOLEAN, method : METHODS]
    /\ mask \in IF settings.use_mask THEN [ParamNames -> {0, 1}] ELSE {EmptyFn}
    /\ experiments = <<settings>> /\ nexp = 1
    /\ param = Zero /\ grad = GradAfterSetup
    /\ method = "unbound" /\ loader = "unbound"
    /\ epoch = 0 /\ batch = 0
    /\ accs = EmptyFn /\ losses = EmptyFn /\ mia_ret = <<>>
    /\ wandb = [count |-> 0, last |-> EmptyFn]
    /\ best_test_acc = "unbound" /\ best_test = "unbound"
    /\ best_forget_acc = "unbound" /\ best_forget = "unbound"
    /\ hist = HistStart
NextMain ==
    \/ Evaluate \/ Attack \/ Log \/ Dispatch \/ EpochLoop \/ BatchLoop
    \/ ForwardBackward \/ MaskGradients \/ OptimizerStep \/ ZeroGrad
SpecMain == InitMain /\ [][NextMain]_vars

\* a batch of MaxExperiments experiments; settings["method"] is any string
\* (utils.get_args and the experiment file do not restrict it)
MethodStrings == METHODS \cup {"other"}
BatchSettings ==
    [epochs : 0..1, use_mask : BOOLEAN, log : {FALSE}, method : MethodStrings]
InitBatch ==
    /\ mia = MiaIdle /\ ev = EvalIdle /\ st = StIdle /\ cm = CmIdle /\ tl = TlIdle
    /\ experiments \in [1..MaxExperiments -> BatchSettings]
    /\ nexp = 1
    /\ settings = experiments[1]
    /\ pc = "base_eval"
    /\ mask \in IF settings.use_mask THEN [ParamNames -> {0, 1}] ELSE {EmptyFn}
    /\ param = Zero /\ grad = GradAfterSetup
    /\ method = "unbound" /\ loader = "unbound"
    /\ epoch = 0 /\ batch = 0
    /\ accs = EmptyFn /\ losses = EmptyFn /\ mia_ret = <<>>
    /\ wandb = [count |-> 0, last |-> EmptyFn]
    /\ best_test_acc = "unbound" /\ best_test = "unbound"
    /\ best_forget_acc = "unbound" /\ best_forget = "unbound"
    /\ hist = HistStart
NextBatch == NextMain \/ NextExperiment
SpecBatch == InitBatch /\ [][NextBatch]_vars

\* lines 298-301 read the mask through `name in mask` and mask[name] only:
\* the experiment of one epoch with masking on, run with a mask of any key
\* set over the model's parameter names and one name the model does not have
MaskNames == ParamNames \cup {"head"}
AnyMasks == UNION {[K -> {0, 1}] : K \in SUBSET MaskNames}
InitMaskKeys ==
    /\ mia = MiaIdle /\ ev = EvalIdle /\ st = StIdle /\ cm = CmIdle /\ tl = TlIdle
    /\ pc = "base_eval"
    /\ settings \in [epochs : {1}, use_mask : {TRUE}, log : {FALSE},
                     method : METHODS]
    /\ mask \in AnyMasks
    /\ experiments = <<settings>> /\ nexp = 1
    /\ param = Zero /\ grad = GradAfterSetup
    /\ method = "unbound" /\ loader = "unbound"
    /\ epoch = 0 /\ batch = 0
    /\ accs = EmptyFn /\ losses = EmptyFn /\ mia_ret = <<>>
    /\ wandb = [count |-> 0, last |-> EmptyFn]
    /\ best_test_acc = "unbound" /\ best_test = "unbound"
    /\ best_forget_acc = "unbound" /\ best_forget = "unbound"
    /\ hist = HistStart
SpecMaskKeys == InitMaskKeys /\ [][NextMain]_vars

\* ------------------------------------------------------------- claims
\* C1: the pair returned by compute_basic_mia is (max AUC over the grid,
\* max forget accuracy over the grid), each maximum taken on its own.
C1_IndependentMaxima ==
    mia.pc = "done" => mia.ret = <<mia.max_auc, mia.max_acc>>

\* C2: every split's returned accuracy is correct / size of that split.
C2_AccuracyIsCorrectOverSize ==
    \A name \in DOMAIN ev.f.accs :
        ev.f.accs[name] = Rat(ev.correct[name], ev.size[name])

\* C3: every accuracy is in [0,1], and so is the inverted forget value.
C3_AccuracyInUnitInterval ==
    /\ \A name \in DOMAIN ev.f.accs :
          RatLeq(RatInt(0), ev.f.accs[name]) /\ RatLeq(ev.f.accs[name], RatInt(1))
    /\ ev.pc = "done" =>
          \A name \in NameSet :
              RatLeq(RatInt(0), ev.ret[name]) /\ RatLeq(ev.ret[name], RatInt(1))

\* C4: after a full pass the loss list of a split holds one scalar per
\* example, in iteration order.
C4_OneLossPerExample ==
    ev.pc \in {"returned", "done"} =>
        \A name \in NameSet :
            ev.f.losses[name] = [k \in 1..ev.size[name] |-> RatInt(ExampleLoss(k))]

ForgetSet == {st.FORGET[j] : j \in 1..Len(st.FORGET)}

\* C5: under rand_label, with C >= 2 classes, every row whose identity
\* index is in FORGET is scored against (label + r) mod C for some r in
\* [1, C): a label in [0, C) other than its own; every other row keeps its
\* label.
C5_RandLabelChangesForgetLabels ==
    (st.pc = "returned" /\ st.method = "rand_label" /\ st.classes >= 2) =>
        \A i \in 1..Len(st.idx) :
            /\ st.rows[i] = CrossEntropy(i, st.target[i], st.classes)
            /\ IF st.idx[i] \in ForgetSet
               THEN /\ st.target[i] \in 0..(st.classes - 1)
                    /\ st.target[i] # st.label[i]
                    /\ \E r \in 1..(st.classes - 1) :
                          st.target[i] = (st.label[i] + r) % st.classes
               ELSE st.target[i] = st.label[i]

C5_Witness ==
    /\ st.pc = "returned" /\ st.method = "rand_label"
    /\ st.classes = 3
    /\ \E i, k \in 1..Len(st.idx) :
          /\ st.idx[i] \in ForgetSet /\ st.target[i] = (st.label[i] + 2) % 3
          /\ st.idx[k] \notin ForgetSet

\* C6: under grad_ascent a row contributes -l_i when its identity index is
\* in FORGET and +l_i otherwise, l_i being its loss against its true label;
\* the returned loss is the mean of these over the whole batch.
C6_GradAscentSigns ==
    (st.pc = "returned" /\ st.method = "grad_ascent") =>
        /\ st.target = st.label
        /\ \A i \in 1..Len(st.idx) :
              st.rows[i] = IF st.idx[i] \in ForgetSet
                           THEN 0 - CrossEntropy(i, st.label[i], st.classes)
                           ELSE CrossEntropy(i, st.label[i], st.classes)
        /\ st.loss = Rat(SumSeq(st.rows), Len(st.idx))

C6_Witness ==
    /\ st.pc = "returned" /\ st.method = "grad_ascent"
    /\ \E i, k \in 1..Len(st.idx) :
          /\ st.idx[i] \in ForgetSet /\ st.rows[i] < 0
          /\ st.idx[k] \notin ForgetSet /\ st.rows[k] > 0

\* C7: in rand_label and in grad_ascent, which_is_in[i] holds exactly when
\* idx[i] is an element of FORGET; FORGET = {3,7}, idx = [1,3,5,7] gives
\* [False, True, False, True].
C7_MembershipPerExample ==
    (st.pc = "returned" /\ st.method \in {"rand_label", "grad_ascent"}) =>
        /\ Len(st.which_is_in) = Len(st.idx)
        /\ \A i \in 1..Len(st.idx) :
              st.which_is_in[i] = (st.idx[i] \in ForgetSet)
        /\ (st.FORGET = <<3, 7>> /\ st.idx = <<1, 3, 5, 7>>) =>
              st.which_is_in = <<FALSE, TRUE, FALSE, TRUE>>

C7_Witness ==
    /\ st.pc = "returned" /\ st.method = "rand_label"
    /\ st.FORGET = <<3, 7>> /\ st.idx = <<1, 3, 5, 7>>
    /\ st.which_is_in = <<FALSE, TRUE, FALSE, TRUE>>

LoopPcs == {"batch_loop", "ForwardBackward", "MaskGradients", "OptimizerStep", "ZeroGrad"}

\* the step relation C8 asks for: every batch goes ForwardBackward -> MaskGradients (only with
\* masking) -> OptimizerStep -> ZeroGrad with exactly one optimizer step;
\* every epoch consumes the whole selected loader once; the loop is left
\* after exactly settings.epochs epochs.
C8_Step ==
    /\ pc = "ForwardBackward" =>
          pc' = (IF settings.use_mask THEN "MaskGradients" ELSE "OptimizerStep")
    /\ pc' = "ForwardBackward" => pc = "batch_loop" /\ batch < LoaderLen[loader]
    /\ pc' = "MaskGradients" => pc = "ForwardBackward" /\ settings.use_mask
    /\ pc = "MaskGradients" => pc' = "OptimizerStep"
    /\ pc' = "OptimizerStep" => pc \in {"ForwardBackward", "MaskGradients"}
    /\ pc = "OptimizerStep" => pc' = "ZeroGrad" /\ hist'.steps = hist.steps + 1
    /\ pc # "OptimizerStep" => hist'.steps = hist.steps
    /\ pc' = "ZeroGrad" => pc = "OptimizerStep"
    /\ pc = "ZeroGrad" => pc' = "batch_loop" /\ batch' = batch + 1
    /\ pc' \in LoopPcs =>
          /\ epoch' < settings.epochs
          /\ hist'.steps = epoch' * LoaderLen[loader'] + batch'
                           + (IF pc' = "ZeroGrad" THEN 1 ELSE 0)
    /\ (pc \in LoopPcs /\ pc' \notin LoopPcs) =>
          pc = "batch_loop" /\ batch = LoaderLen[loader]
    /\ pc' = "done" =>
          /\ epoch' = settings.epochs
          /\ hist'.steps = settings.epochs * LoaderLen[loader']

\* C8, as a property of every step of the experiment: the order of the
\* phases of a batch, one optimizer step per batch, whole loader per epoch,
\* exactly settings.epochs epochs.
C8_LoopOrder == [][C8_Step]_vars

C8_Witness ==
    /\ pc = "done" /\ settings.epochs = 2 /\ settings.use_mask
    /\ loader = "train_loader" /\ hist.steps = 4

AllOnes ==
    /\ settings.use_mask
    /\ \A n \in ParamNames : n \in DOMAIN mask /\ mask[n] = 1

\* C9: with masking enabled and a mask of ones for every parameter, the loop
\* applies after every batch the gradients, and leaves the parameters, that
\* the same loop with masking disabled applies and leaves (hist.plain).
C9_AllOnesMaskIsNoOp ==
    AllOnes =>
        /\ hist.plain # NoRun
        /\ hist.plain.param = param
        /\ pc \in {"OptimizerStep", "ZeroGrad"} => hist.plain.grad = grad

C9_Witness ==
    /\ AllOnes /\ pc = "ZeroGrad" /\ hist.steps = 4
    /\ grad = [n \in ParamNames |-> IF n = "conv" THEN -1 ELSE 1]
    /\ param["conv"] = 2 /\ param["fc"] = -4
    /\ hist.plain.param = param

MiaPcs == {"base_mia", "mia"}
LogPcs == {"base_log", "log"}

\* C10: with E epochs the evaluation runs E+1 times, once before the first
\* parameter update and once after the last batch of every epoch; each is
\* followed by its attack with no update in between; with logging on, each
\* evaluation sends one record of the four accuracies and the two MIA
\* scores.
C10_EvalAttackPerEpoch ==
    /\ hist.evals = hist.attacks + (IF pc \in MiaPcs THEN 1 ELSE 0)
    /\ pc \in MiaPcs => hist.eval_at = hist.steps
    /\ (hist.attacks > 0 /\ pc \notin MiaPcs) => hist.attack_at = hist.eval_at
    /\ hist.steps > 0 => hist.evals >= 1
    /\ pc = "base_eval" => hist.evals = 0
    /\ pc \in {"base_mia", "base_log", "dispatch"} => hist.evals = 1 /\ hist.eval_at = 0
    /\ pc \in LoopPcs \cup {"epoch_loop", "eval", "done"} => hist.evals = epoch + 1
    /\ pc \in {"mia", "log"} =>
          /\ hist.evals = epoch + 2
          /\ hist.eval_at = (epoch + 1) * LoaderLen[loader]
    /\ pc = "done" =>
          hist.evals = settings.epochs + 1 /\ hist.attacks = settings.epochs + 1
    /\ wandb.count =
          IF settings.log
          THEN hist.attacks - (IF pc \in LogPcs THEN 1 ELSE 0)
          ELSE 0
    /\ (wandb.count > 0 /\ pc \notin MiaPcs \cup LogPcs) =>
          /\ DOMAIN wandb.last =
                {"test", "forget", "retain", "val", "mia_auc", "mia_acc"}
          /\ wandb.last = MetricsRecord

C10_Witness ==
    /\ pc = "done" /\ settings.epochs = 2 /\ settings.log
    /\ hist.evals = 3 /\ hist.attacks = 3 /\ wandb.count = 3 /\ hist.steps > 0

\* C11: the mask compute_mask returns is all ones for every parameter when
\* saliency_threshold = 0 and all zeros when saliency_threshold = 1, whatever
\* the accumulated saliency (entries of zero saliency included).
C11_DegenerateThresholds ==
    cm.pc = "returned" =>
        /\ cm.saliency_threshold = Rat(0, 1) =>
              \A n \in ParamNames : \A i \in Entries : cm.ret[n][i] = 1
        /\ cm.saliency_threshold = Rat(1, 1) =>
              \A n \in ParamNames : \A i \in Entries : cm.ret[n][i] = 0

\* the half of C11 about saliency_threshold = 1
C11_ThresholdOneAllZeros ==
    (cm.pc = "returned" /\ cm.saliency_threshold = Rat(1, 1)) =>
        \A n \in ParamNames : \A i \in Entries : cm.ret[n][i] = 0

\* C12: every forward pass of eval_unlearning runs with gradient tracking
\* disabled, so none records gradient information, and tracking is enabled
\* again when the pass has ended.
C12_EvaluationWithoutGradients ==
    /\ ev.tracked = 0
    /\ ev.pc \in {"returned", "done"} => ev.grad_enabled

\* the step relation C13 asks for: with masking on, backward is followed by
\* the masking, which multiplies the gradient of every parameter named in the
\* mask by its mask entry, leaves every other gradient as it is, reads no
\* entry of a name the model does not have and always gets to the optimizer
\* step, which applies the gradient the masking left; no step changes the
\* mask.
C13_Step ==
    /\ mask' = mask
    /\ (pc = "ForwardBackward" /\ settings.use_mask) => pc' = "MaskGradients"
    /\ pc = "MaskGradients" =>
          /\ pc' = "OptimizerStep"
          /\ DOMAIN grad' = ParamNames
          /\ \A n \in ParamNames :
                grad'[n] = IF n \in DOMAIN mask THEN grad[n] * mask[n] ELSE grad[n]
    /\ pc = "OptimizerStep" =>
          /\ grad' = grad
          /\ \A n \in ParamNames : param'[n] = param[n] - grad[n]

\* C13: a parameter named in the mask has its gradient multiplied by its mask
\* entry before the optimizer step, a parameter not named in the mask keeps
\* its gradient, a mask entry naming no parameter of the model has no effect,
\* none of these stops the loop, and the loop never modifies the mask.
C13_MaskKeysAndParameters == [][C13_Step]_vars

C13_Witness ==
    /\ pc = "ZeroGrad" /\ hist.steps = 1
    /\ DOMAIN mask = {"conv", "head"} /\ mask["conv"] = 0 /\ mask["head"] = 1
    /\ grad["conv"] = 0 /\ grad["fc"] = -1
    /\ param["conv"] = 0 /\ param["fc"] = 1

\* statements at which lines 261-264 have run
TrackingPcs == LoopPcs \cup {"epoch_loop", "eval", "mia", "log", "done"}

\* C14: the best-forget tracking never triggers: once set at lines 263-264,
\* best_forget_acc is 100 and best_forget is the empty record in every state
\* of the run, whatever the evaluations return.
C14_BestForgetNeverUpdated ==
    pc \in TrackingPcs =>
        /\ best_forget_acc = RatInt(100)
        /\ best_forget = EmptyFn

C14_Witness ==
    /\ pc = "done" /\ settings.epochs = 2
    /\ accs["forget"] = RatInt(1)
    /\ best_test_acc = RatInt(1) /\ best_test # EmptyFn
    /\ best_forget_acc = RatInt(100) /\ best_forget = EmptyFn

\* statements of the update loop that work on a batch of the loader
StepPcs == {"ForwardBackward", "MaskGradients", "OptimizerStep", "ZeroGrad"}

\* C15: whenever an experiment of a batch run works on a batch, the strategy
\* and the loader are the ones its own method names, bound by itself; an
\* experiment whose method is none of rl, ga, ga_small, retrain never gets
\* to update parameters with what an earlier experiment bound.
C15_OwnStrategyAndLoader ==
    pc \in StepPcs =>
        /\ settings.method \in METHODS
        /\ hist.bound_at = nexp
        /\ method = MethodFor(settings.method)
        /\ loader = LoaderFor(settings.method)

C17_Inv ==
    /\ tl.pat \in 0..PAT
    /\ tl.pat = PAT - tl.streak
    /\ tl.epoch \in 0..EPOCHS
    /\ tl.pc = "loop" => tl.streak < PAT
    /\ tl.pc \in {"test", "done"} => (tl.streak = PAT \/ tl.epoch = EPOCHS)

\* in every step of the driver: best_acc does not decrease; an epoch saves
\* a checkpoint exactly when it raises best_acc, and then the counter is
\* back at PAT; any other epoch takes one off the counter.
C17_Step ==
    /\ tl'.best_acc >= tl.best_acc
    /\ tl'.epoch = tl.epoch + 1 =>
          /\ tl'.saved <=> tl'.best_acc > tl.best_acc
          /\ tl'.pat = IF tl'.saved THEN PAT ELSE tl.pat - 1
    /\ tl'.epoch # tl.epoch + 1 => tl' = [tl EXCEPT !.pc = tl'.pc]

\* C17: the training driver keeps best_acc non-decreasing, saves exactly in
\* the epochs that raise it (counter back to PAT) and decrements the counter
\* otherwise, keeps the counter in [0, PAT], stops at the PAT-th consecutive
\* non-improving epoch or after EPOCHS epochs, whichever comes first, and
\* always terminates.
C17_PatienceDriver == []C17_Inv /\ [][C17_Step]_vars /\ <>(tl.pc = "done")

\* stopped by patience at epoch 2 * PAT after one improving epoch
C17_Witness ==
    /\ tl.pc = "done" /\ tl.pat = 0 /\ tl.streak = PAT
    /\ tl.epoch = 2 * PAT /\ tl.best_acc = MaxTop1 /\ ~tl.saved

====
